---- MODULE Spec2Model ----
(***************************************************************************)
(* Model of bevy_hanabi's src/modifiers.rs: the force-field modifier       *)
(* (ForceFieldModifier::new / add_or_replace / apply), the layout          *)
(* accumulators written by the init / update / render modifiers, the code  *)
(* generation of the circle / sphere / cube position modifiers, and the    *)
(* execution of the cube sampling code they emit.                          *)
(*                                                                         *)
(* f32 values are integers here.  ForceFieldParam fields are in tenths     *)
(* (min_radius 0.1 is 1).  Generated WGSL text is a sequence of text       *)
(* fragments whose concatenation is the emitted string; every call of a    *)
(* random-sampling intrinsic is a fragment of its own.                     *)
(***************************************************************************)
EXTENDS Integers, Sequences, FiniteSets, TLC

\* modifiers.rs:10  pub const FFNUM: usize = 16;
FFNUM == 16

\* Longest source sequence handed to ForceFieldModifier::new.
MaxSources == 18
\* Most add_or_replace calls made on one modifier instance.
MaxReplace == 2
\* rand() takes the values k / RandDen.
RandDen == 3

VARIABLES
    pc,               \* "idle" | "new" (inside new's loop) | "live" | "panicked"
    sources,          \* the point_attractors argument of the call to new
    iter_i,           \* enumerate() index of the next source in new's loop
    new_force_field,  \* new's local `let mut force_field`
    force_field,      \* ForceFieldModifier.force_field of the instance
    panic_msg,        \* which panic ended the call, "" when none
    n_replace,        \* number of add_or_replace calls made so far
    replace_arg,      \* arguments of the last add_or_replace call
    init_layout,      \* InitLayout:   [position_code]
    update_layout,    \* UpdateLayout: [accel, force_field]
    render_layout,    \* RenderLayout: [particle_texture, lifetime_color_gradient, size_color_gradient]
    last_applied,     \* per layout field, the modifier last applied to it: <<m>>, or <<>>
    shape_code,       \* locals of the last position modifier's apply: [radius_code, speed_code]
    sh,               \* the emitted cube code's run: its position and its variables
    ret,              \* the particle the emitted code writes: [pos, vel]
    pos_writes        \* how often the run has assigned each coordinate of ret.pos

ffvars == <<pc, sources, iter_i, new_force_field, force_field, panic_msg,
            n_replace, replace_arg>>
shvars == <<sh, ret, pos_writes>>
layoutvars == <<init_layout, update_layout, render_layout, last_applied, shape_code>>

Slots == 0 .. (FFNUM - 1)

\* Option<T>: None is <<>>, Some(v) is <<v>>.
None == <<>>
Some(v) == <<v>>

(***************************************************************************)
(* ForceFieldParam                                                         *)
(***************************************************************************)
ForceFieldParam(pos, maxr, minr, m, e, c) ==
    [position |-> pos, max_radius |-> maxr, min_radius |-> minr,
     mass |-> m, force_exponent |-> e, conform_to_sphere |-> c]

\* impl Default for ForceFieldParam
DefaultForceFieldParam ==
    ForceFieldParam(<<0, 0, 0>>, 0, 1, 0, 0, FALSE)

\* Sources used as inputs: an attractor, a repulsor, a source of mass zero
\* that is not the default, and a replacement.
AttractorA == ForceFieldParam(<<10, 0, 0>>, 50, 2, 30, 20, FALSE)
RepulsorB  == ForceFieldParam(<<0, -10, 0>>, 40, 1, -20, 10, TRUE)
ZeroMassZ  == ForceFieldParam(<<5, 5, 5>>, 90, 2, 0, 10, TRUE)
AttractorC == ForceFieldParam(<<0, 0, 10>>, 30, 3, 10, 20, TRUE)

\* The argument sequences of new: n sources alternating A and B, the second
\* one of mass zero.
SourceSeq(n) ==
    [j \in 1 .. n |-> IF j = 2 THEN ZeroMassZ
                      ELSE IF j % 2 = 1 THEN AttractorA ELSE RepulsorB]
SourceSeqs == { SourceSeq(n) : n \in 0 .. MaxSources }

ReplaceParams == { DefaultForceFieldParam, AttractorC }
\* usize indices handed to add_or_replace; FFNUM is the first invalid one.
ReplaceIndices == 0 .. FFNUM

\* [ForceFieldParam::default(); FFNUM]
DefaultForceField == [j \in Slots |-> DefaultForceFieldParam]

(***************************************************************************)
(* Layout accumulators                                                     *)
(***************************************************************************)
NoCode == <<>>

InitLayoutDefault == [position_code |-> NoCode]
UpdateLayoutDefault == [accel |-> <<0, 0, 0>>, force_field |-> DefaultForceField]
RenderLayoutDefault ==
    [particle_texture |-> None, lifetime_color_gradient |-> None,
     size_color_gradient |-> None]

NoShapeCode == [radius_code |-> NoCode, speed_code |-> NoCode]

NothingApplied ==
    [position_code |-> None, accel |-> None, force_field |-> None,
     particle_texture |-> None, lifetime_color_gradient |-> None,
     size_color_gradient |-> None]

(***************************************************************************)
(* ForceFieldModifier::new                                                 *)
(***************************************************************************)
\* modifiers.rs:461  if i > FFNUM
TooManyAttractors(i) == i > FFNUM

\* Mutation: the bounds check lets the index FFNUM through.
IndexInBoundsInclusive(i) == i <= FFNUM

\* The bounds check of indexing a [ForceFieldParam; FFNUM] array.
IndexInBounds(i) == i < FFNUM

\* Mutation: a source of mass zero is skipped.
StoreSlotSkipZeroMass(ff, i, p) == IF p.mass = 0 THEN ff ELSE [ff EXCEPT ![i] = p]

\* Mutation: the store also resets the slots after i.
StoreSlotClearRest(ff, i, p) ==
    [j \in DOMAIN ff |-> IF j = i THEN p ELSE IF j > i THEN DefaultForceFieldParam ELSE ff[j]]

\* force_field[i] = p on an array, for an index within bounds.
StoreSlot(ff, i, p) == [ff EXCEPT ![i] = p]

PanicTooMany == "Too many point attractors"
PanicIndex == "index out of bounds"

\* The call: let mut force_field = [ForceFieldParam::default(); FFNUM];
NewCall(src) ==
    /\ pc = "idle"
    /\ pc' = "new"
    /\ sources' = src
    /\ iter_i' = 0
    /\ new_force_field' = DefaultForceField
    /\ UNCHANGED <<force_field, panic_msg, n_replace, replace_arg>>
    /\ UNCHANGED layoutvars
    /\ UNCHANGED shvars

\* One iteration of the for loop over point_attractors.into_iter().enumerate().
NewIterate ==
    /\ pc = "new"
    /\ iter_i < Len(sources)
    /\ IF TooManyAttractors(iter_i)
         THEN /\ pc' = "panicked"
              /\ panic_msg' = PanicTooMany
              /\ UNCHANGED <<iter_i, new_force_field>>
       ELSE IF ~IndexInBounds(iter_i)
         THEN /\ pc' = "panicked"
              /\ panic_msg' = PanicIndex
              /\ UNCHANGED <<iter_i, new_force_field>>
       ELSE /\ new_force_field' = StoreSlot(new_force_field, iter_i, sources[iter_i + 1])
            /\ iter_i' = iter_i + 1
            /\ UNCHANGED <<pc, panic_msg>>
    /\ UNCHANGED <<sources, force_field, n_replace, replace_arg>>
    /\ UNCHANGED layoutvars
    /\ UNCHANGED shvars

\* The iterator is exhausted: Self { force_field }
NewReturn ==
    /\ pc = "new"
    /\ iter_i >= Len(sources)
    /\ pc' = "live"
    /\ force_field' = new_force_field
    /\ UNCHANGED <<sources, iter_i, new_force_field, panic_msg, n_replace,
                   replace_arg>>
    /\ UNCHANGED layoutvars
    /\ UNCHANGED shvars

(***************************************************************************)
(* ForceFieldModifier::add_or_replace                                      *)
(***************************************************************************)

\* Mutation: the layout shares the array apply gave it with the instance.
AddOrReplaceAliased(p, index) ==
    /\ pc = "live"
    /\ n_replace < MaxReplace
    /\ n_replace' = n_replace + 1
    /\ replace_arg' = [point_attractor |-> p, index |-> index]
    /\ IF IndexInBounds(index)
         THEN /\ force_field' = StoreSlot(force_field, index, p)
              /\ update_layout' =
                    IF last_applied.force_field # None
                      THEN [update_layout EXCEPT !.force_field = StoreSlot(force_field, index, p)]
                      ELSE update_layout
              /\ UNCHANGED <<pc, panic_msg>>
         ELSE /\ pc' = "panicked"
              /\ panic_msg' = PanicIndex
              /\ UNCHANGED <<force_field, update_layout>>
    /\ UNCHANGED <<sources, iter_i, new_force_field>>
    /\ UNCHANGED <<init_layout, render_layout, last_applied, shape_code>>
    /\ UNCHANGED shvars

AddOrReplace(p, index) ==
    /\ pc = "live"
    /\ n_replace < MaxReplace
    /\ n_replace' = n_replace + 1
    /\ replace_arg' = [point_attractor |-> p, index |-> index]
    /\ IF IndexInBounds(index)
         THEN /\ force_field' = StoreSlot(force_field, index, p)
              /\ UNCHANGED <<pc, panic_msg>>
         ELSE /\ pc' = "panicked"
              /\ panic_msg' = PanicIndex
              /\ UNCHANGED force_field
    /\ UNCHANGED <<sources, iter_i, new_force_field>>
    /\ UNCHANGED layoutvars
    /\ UNCHANGED shvars

(***************************************************************************)
(* impl UpdateModifier for ForceFieldModifier                              *)
(***************************************************************************)
\* layout.force_field = self.force_field  (a copy of a Copy array)
ForceFieldApplyTo(layout, ff) == [layout EXCEPT !.force_field = ff]

ForceFieldModifierApply ==
    /\ pc = "live"
    /\ update_layout' = ForceFieldApplyTo(update_layout, force_field)
    /\ last_applied' = [last_applied EXCEPT !.force_field = Some(force_field)]
    /\ UNCHANGED <<pc, sources, iter_i, new_force_field, force_field, panic_msg,
                   n_replace, replace_arg>>
    /\ UNCHANGED <<init_layout, render_layout, shape_code>>
    /\ UNCHANGED shvars

(***************************************************************************)
(* Value, SpeedVector, ShapeDimension and their WGSL text                  *)
(***************************************************************************)
\* Value<f32>
Single(x) == [kind |-> "Single", v |-> <<x>>]
Uniform(a, b) == [kind |-> "Uniform", v |-> <<a, b>>]

\* SpeedVector
Normal(speed) == [kind |-> "Normal", v |-> <<speed>>]
Radial(speed) == [kind |-> "Radial", v |-> <<speed>>]
Local(x, y, z) == [kind |-> "Local", v |-> <<x, y, z>>]
World(x, y, z) == [kind |-> "World", v |-> <<x, y, z>>]

\* The intrinsics of the shader that draw a random sample.
RandCalls == {"rand()", "rand3()", "rand_positive_int(6u)"}

\* f32::to_wgsl_string: a numeric literal.
F32ToWgsl(x) == <<ToString(x)>>

\* Vec3::to_wgsl_string
Vec3ToWgsl(v) ==
    <<"vec3<f32>(", ToString(v[1]), ", ", ToString(v[2]), ", ", ToString(v[3]), ")">>

\* Vec4::to_wgsl_string
Vec4ToWgsl(v) ==
    <<"vec4<f32>(", ToString(v[1]), ", ", ToString(v[2]), ", ", ToString(v[3]),
      ", ", ToString(v[4]), ")">>

\* Value<f32>::to_wgsl_string: a literal, or a random sample of the range.
ValueToWgsl(val) ==
    IF val.kind = "Single"
      THEN F32ToWgsl(val.v[1])
      ELSE <<"(", "rand()", " * (">> \o F32ToWgsl(val.v[2]) \o <<" - ">>
           \o F32ToWgsl(val.v[1]) \o <<") + ">> \o F32ToWgsl(val.v[1]) \o <<")">>

\* Quat * Vec3, for a unit quaternion <<x, y, z, w>> with integer components.
\* The sign of a zero is not kept.
Dot(a, b) == a[1] * b[1] + a[2] * b[2] + a[3] * b[3]
Cross(a, b) ==
    <<a[2] * b[3] - a[3] * b[2], a[3] * b[1] - a[1] * b[3], a[1] * b[2] - a[2] * b[1]>>
QuatMulVec3(q, v) ==
    LET b == <<q[1], q[2], q[3]>>
        w == q[4]
        k1 == w * w - Dot(b, b)
        k2 == 2 * Dot(v, b)
        c == Cross(b, v)
    IN  [j \in 1 .. 3 |-> v[j] * k1 + b[j] * k2 + c[j] * 2 * w]

Vec3X == <<1, 0, 0>>
Vec3Z == <<0, 0, 1>>

(***************************************************************************)
(* impl InitModifier for PositionCircleModifier                            *)
(***************************************************************************)
CircleRadiusCode(m) ==
    IF m.dimension = "Surface"
      THEN <<"let r = ">> \o F32ToWgsl(m.radius) \o <<";">>
      ELSE <<"let r = sqrt(", "rand()", ") * ">> \o F32ToWgsl(m.radius) \o <<";">>

CircleSpeedCode(m) ==
    CASE m.speed.kind \in {"Normal", "Radial"} ->
           <<"ret.vel = dir * (">> \o ValueToWgsl(m.speed.v[1]) \o <<");">>
      [] m.speed.kind = "Local" ->
           <<"\n    let rot = ">> \o Vec4ToWgsl(m.rotation)
           \o <<";\n    ret.vel = rotate_point(vec3<f32>(">> \o ValueToWgsl(m.speed.v[1])
           \o <<", ">> \o ValueToWgsl(m.speed.v[2])
           \o <<", ">> \o ValueToWgsl(m.speed.v[3])
           \o <<"), rot);\n                        ">>
      [] m.speed.kind = "World" ->
           <<"ret.vel = vec3<f32>(">> \o ValueToWgsl(m.speed.v[1])
           \o <<", ">> \o ValueToWgsl(m.speed.v[2])
           \o <<", ">> \o ValueToWgsl(m.speed.v[3])
           \o <<");">>

CirclePositionCode(m) ==
    LET tangent == QuatMulVec3(m.rotation, Vec3X)
        bitangent == QuatMulVec3(m.rotation, Vec3Z)
    IN  <<"\n    // >>> [PositionCircleModifier]\n    // Circle center\n    let c = ">>
        \o Vec3ToWgsl(m.center)
        \o <<";\n    // Circle basis\n    let tangent = ">>
        \o Vec3ToWgsl(tangent)
        \o <<";\n    let bitangent = ">>
        \o Vec3ToWgsl(bitangent)
        \o <<";\n    // Circle radius\n    ">>
        \o CircleRadiusCode(m)
        \o <<"\n    // Spawn random point on/in circle\n    let theta = ", "rand()", " * tau;\n    let dir = tangent * cos(theta) + bitangent * sin(theta);\n    ret.pos = c + r * dir;\n    // Speed code\n    ">>
        \o CircleSpeedCode(m)
        \o <<"\n    // <<< [PositionCircleModifier]\n            ">>

(***************************************************************************)
(* impl InitModifier for PositionSphereModifier                            *)
(***************************************************************************)

\* Mutation: the volume radius is not cube-rooted.
SphereRadiusCodeLinear(m) ==
    IF m.dimension = "Surface"
      THEN <<"let r = ">> \o F32ToWgsl(m.radius) \o <<";">>
      ELSE <<"var r = ", "rand()", " * ">> \o F32ToWgsl(m.radius) \o <<";">>

SphereRadiusCode(m) ==
    IF m.dimension = "Surface"
      THEN <<"let r = ">> \o F32ToWgsl(m.radius) \o <<";">>
      ELSE <<"var r = pow(", "rand()", ", 1./3.) * ">> \o F32ToWgsl(m.radius) \o <<";">>

SphereSpeedCode(m) ==
    CASE m.speed.kind \in {"Normal", "Radial"} ->
           <<"ret.vel = dir * (">> \o ValueToWgsl(m.speed.v[1]) \o <<");">>
      [] m.speed.kind = "Local" ->
           <<"\n    let rot = ">> \o Vec4ToWgsl(m.rotation)
           \o <<";\n    ret.vel = rotate_point(vec3<f32>(">> \o ValueToWgsl(m.speed.v[1])
           \o <<", ">> \o ValueToWgsl(m.speed.v[2])
           \o <<", ">> \o ValueToWgsl(m.speed.v[3])
           \o <<"), rot);\n                        ">>
      [] m.speed.kind = "World" ->
           <<"ret.vel = vec3<f32>(">> \o ValueToWgsl(m.speed.v[1])
           \o <<", ">> \o ValueToWgsl(m.speed.v[2])
           \o <<", ">> \o ValueToWgsl(m.speed.v[3])
           \o <<");">>

SpherePositionCode(m) ==
    <<"\n    // >>> [PositionSphereModifier]\n    // Sphere center\n    let c = ">>
    \o Vec3ToWgsl(m.center)
    \o <<";\n    // Sphere radius\n    ">>
    \o SphereRadiusCode(m)
    \o <<"\n    // Spawn randomly along the sphere surface using Archimedes's theorem\n    var theta = ", "rand()", " * tau;\n    var z = ", "rand()", " * 2. - 1.;\n    var phi = acos(z);\n    var sinphi = sin(phi);\n    var x = sinphi * cos(theta);\n    var y = sinphi * sin(theta);\n    var dir = vec3<f32>(x, y, z);\n    ret.pos = c + r * dir;\n    // Speed code\n    ">>
    \o SphereSpeedCode(m)
    \o <<"\n    // <<< [PositionSphereModifier]\n">>

(***************************************************************************)
(* impl InitModifier for PositionCubeModifier                              *)
(***************************************************************************)
CubeExtentsCode(m) ==
    IF m.dimension = "Surface"
      THEN <<"let extents = ">> \o Vec3ToWgsl(m.extents) \o <<";">>
      ELSE <<"var extents = (", "rand3()", " - vec3<f32>(0.5, 0.5, 0.5)) * ">>
           \o Vec3ToWgsl(m.extents) \o <<";">>

\* Mutation: Normal is treated like Radial, as for the circle and the sphere.
CubeSpeedCodeNormalAsRadial(m) ==
    CASE m.speed.kind \in {"Normal", "Radial"} ->
           <<"ret.vel = ret.pos * ">> \o ValueToWgsl(m.speed.v[1]) \o <<";">>
      [] m.speed.kind = "Local" ->
           <<"ret.vel = rotate_point(vec3<f32>(">> \o ValueToWgsl(m.speed.v[1])
           \o <<", ">> \o ValueToWgsl(m.speed.v[2])
           \o <<", ">> \o ValueToWgsl(m.speed.v[3])
           \o <<"), rot);">>
      [] m.speed.kind = "World" ->
           <<"ret.vel = vec3<f32>(">> \o ValueToWgsl(m.speed.v[1])
           \o <<", ">> \o ValueToWgsl(m.speed.v[2])
           \o <<", ">> \o ValueToWgsl(m.speed.v[3])
           \o <<");">>

CubeSpeedCode(m) ==
    CASE m.speed.kind = "Normal" ->
           <<"\n    var normal = vec3<f32>(0., 0., 0.);\n    normal[ si[0] ] = locked_axis_sign;\n    ret.vel = rotate_point(normal * ">>
           \o ValueToWgsl(m.speed.v[1])
           \o <<", rot);\n                    ">>
      [] m.speed.kind = "Radial" ->
           <<"ret.vel = ret.pos * ">> \o ValueToWgsl(m.speed.v[1]) \o <<";">>
      [] m.speed.kind = "Local" ->
           <<"ret.vel = rotate_point(vec3<f32>(">> \o ValueToWgsl(m.speed.v[1])
           \o <<", ">> \o ValueToWgsl(m.speed.v[2])
           \o <<", ">> \o ValueToWgsl(m.speed.v[3])
           \o <<"), rot);">>
      [] m.speed.kind = "World" ->
           <<"ret.vel = vec3<f32>(">> \o ValueToWgsl(m.speed.v[1])
           \o <<", ">> \o ValueToWgsl(m.speed.v[2])
           \o <<", ">> \o ValueToWgsl(m.speed.v[3])
           \o <<");">>

CubePositionCode(m) ==
    <<"\n    // >>> [PositionCubeModifier]\n    // Box center\n    let c = ">>
    \o Vec3ToWgsl(m.center)
    \o <<";\n    // Box rotation\n    let rot = ">>
    \o Vec4ToWgsl(m.rotation)
    \o <<";\n    // Box extents\n    ">>
    \o CubeExtentsCode(m)
    \o <<"\n    // Spawn randomly along the (possibly randomized) box surface\n    // Choose a face randomly and find a point on that face\n    var s = ", "rand_positive_int(6u)", ";\n    var si = vec3<u32>(s, s + 1u, s + 2u) % 3u;\n    // si[0] is the selected face: lock the corresponding coordinate\n    var locked_axis_sign = 0.;\n    if (s > 2u) {\n        locked_axis_sign = 1.;\n    } else {\n        locked_axis_sign = -1.;\n    }\n    ret.pos[ si[0] ] = locked_axis_sign * .5 * extents[ si[0] ];\n    \n    // 2 degrees of freedom for the remaining coordinates\n    ret.pos[ si[1] ] = (", "rand()", " - .5) * extents[ si[1] ];\n    ret.pos[ si[2] ] = (", "rand()", " - .5) * extents[ si[2] ];\n    \n    // Apply rotation\n    ret.pos = rotate_point(ret.pos, rot);\n    \n    // Speed\n    ">>
    \o CubeSpeedCode(m)
    \o <<"\n    \n    // Put position in world space\n    ret.pos = ret.pos + c;\n    // <<< [PositionCubeModifier]\n">>

(***************************************************************************)
(* The position modifiers' apply                                           *)
(***************************************************************************)
\* init_layout.position_code = format!(...)
SetPositionCode(layout, code) == [layout EXCEPT !.position_code = code]

PositionCircleModifierApply(m) ==
    /\ shape_code' = [radius_code |-> CircleRadiusCode(m), speed_code |-> CircleSpeedCode(m)]
    /\ init_layout' = SetPositionCode(init_layout, CirclePositionCode(m))
    /\ last_applied' = [last_applied EXCEPT !.position_code = Some(<<"Circle", m>>)]
    /\ UNCHANGED <<update_layout, render_layout>>
    /\ UNCHANGED ffvars
    /\ UNCHANGED shvars

PositionSphereModifierApply(m) ==
    /\ shape_code' = [radius_code |-> SphereRadiusCode(m), speed_code |-> SphereSpeedCode(m)]
    /\ init_layout' = SetPositionCode(init_layout, SpherePositionCode(m))
    /\ last_applied' = [last_applied EXCEPT !.position_code = Some(<<"Sphere", m>>)]
    /\ UNCHANGED <<update_layout, render_layout>>
    /\ UNCHANGED ffvars
    /\ UNCHANGED shvars

PositionCubeModifierApply(m) ==
    /\ shape_code' = [radius_code |-> CubeExtentsCode(m), speed_code |-> CubeSpeedCode(m)]
    /\ init_layout' = SetPositionCode(init_layout, CubePositionCode(m))
    /\ last_applied' = [last_applied EXCEPT !.position_code = Some(<<"Cube", m>>)]
    /\ UNCHANGED <<update_layout, render_layout>>
    /\ UNCHANGED ffvars
    /\ UNCHANGED shvars

(***************************************************************************)
(* Render modifiers and AccelModifier                                      *)
(***************************************************************************)
\* render_layout.particle_texture = Some(self.texture.clone())
SetParticleTexture(layout, texture) == [layout EXCEPT !.particle_texture = Some(texture)]

ParticleTextureModifierApply(m) ==
    /\ render_layout' = SetParticleTexture(render_layout, m.texture)
    /\ last_applied' = [last_applied EXCEPT !.particle_texture = Some(m)]
    /\ UNCHANGED <<init_layout, update_layout, shape_code>>
    /\ UNCHANGED ffvars
    /\ UNCHANGED shvars

\* render_layout.lifetime_color_gradient = Some(self.gradient.clone())
SetLifetimeColorGradient(layout, gradient) ==
    [layout EXCEPT !.lifetime_color_gradient = Some(gradient)]

ColorOverLifetimeModifierApply(m) ==
    /\ render_layout' = SetLifetimeColorGradient(render_layout, m.gradient)
    /\ last_applied' = [last_applied EXCEPT !.lifetime_color_gradient = Some(m)]
    /\ UNCHANGED <<init_layout, update_layout, shape_code>>
    /\ UNCHANGED ffvars
    /\ UNCHANGED shvars

\* render_layout.size_color_gradient = Some(self.gradient.clone())
SetSizeColorGradient(layout, gradient) ==
    [layout EXCEPT !.size_color_gradient = Some(gradient)]

SizeOverLifetimeModifierApply(m) ==
    /\ render_layout' = SetSizeColorGradient(render_layout, m.gradient)
    /\ last_applied' = [last_applied EXCEPT !.size_color_gradient = Some(m)]
    /\ UNCHANGED <<init_layout, update_layout, shape_code>>
    /\ UNCHANGED ffvars
    /\ UNCHANGED shvars

\* Mutation: the acceleration is set on a fresh layout.
SetAccelOnDefaultLayout(layout, accel) == [UpdateLayoutDefault EXCEPT !.accel = accel]

\* layout.accel = self.accel
SetAccel(layout, accel) == [layout EXCEPT !.accel = accel]

AccelModifierApply(m) ==
    /\ update_layout' = SetAccel(update_layout, m.accel)
    /\ last_applied' = [last_applied EXCEPT !.accel = Some(m)]
    /\ UNCHANGED <<init_layout, render_layout, shape_code>>
    /\ UNCHANGED ffvars
    /\ UNCHANGED shvars

(***************************************************************************)
(* Modifier instances used as inputs                                       *)
(***************************************************************************)
Dimensions == {"Surface", "Volume"}
Speeds == {Single(5), Single(0), Uniform(1, 3)}
SpeedVectors ==
    { Normal(v) : v \in Speeds } \cup { Radial(v) : v \in Speeds }
    \cup { Local(Single(1), Uniform(0, 2), Single(-1)), World(Single(0), Single(3), Single(0)) }

QuatIdentity == <<0, 0, 0, 1>>
\* Half a turn about the X axis.
QuatHalfTurnX == <<1, 0, 0, 0>>
\* Half a turn about the Y axis.
QuatHalfTurnY == <<0, 1, 0, 0>>

\* (center, rotation, radius)
RoundGeometries ==
    { <<<<0, 0, 0>>, QuatIdentity, 2>>, <<<<1, -2, 3>>, QuatHalfTurnX, 0>>,
      <<<<0, 5, 0>>, QuatHalfTurnY, 7>> }
\* (center, rotation, extents)
BoxGeometries ==
    { <<<<0, 0, 0>>, QuatIdentity, <<2, 2, 2>>>>, <<<<1, -2, 3>>, QuatHalfTurnX, <<1, 2, 0>>>>,
      <<<<0, 5, 0>>, QuatHalfTurnY, <<4, 6, 8>>>> }

CircleModifiers ==
    { [center |-> g[1], rotation |-> g[2], radius |-> g[3], speed |-> sp, dimension |-> d] :
        g \in RoundGeometries, sp \in SpeedVectors, d \in Dimensions }
SphereModifiers ==
    { [center |-> g[1], radius |-> g[3], rotation |-> g[2], speed |-> sp, dimension |-> d] :
        g \in RoundGeometries, sp \in SpeedVectors, d \in Dimensions }
CubeModifiers ==
    { [center |-> g[1], extents |-> g[3], rotation |-> g[2], speed |-> sp, dimension |-> d] :
        g \in BoxGeometries, sp \in SpeedVectors, d \in Dimensions }

TextureModifiers == { [texture |-> h] : h \in {"texture_a", "texture_b"} }
ColorModifiers == { [gradient |-> g] : g \in {"color_gradient_a", "color_gradient_b"} }
SizeModifiers == { [gradient |-> g] : g \in {"size_gradient_a", "size_gradient_b"} }
AccelModifiers == { [accel |-> a] : a \in {<<0, -10, 0>>, <<3, 0, 0>>} }

\* The instance ForceFieldModifier::new returns for src (Len(src) <= FFNUM).
ReturnedInstance(src) ==
    [j \in Slots |-> IF j < Len(src) THEN src[j + 1] ELSE DefaultForceFieldParam]

LayoutSources == SourceSeq(3)

\* The position modifiers applied to the layouts of SpecLayouts.
LayoutSpeeds == { Radial(Single(5)), World(Single(0), Single(3), Single(0)) }
LayoutCircleModifiers ==
    { m \in CircleModifiers : m.radius = 2 /\ m.dimension = "Volume" /\ m.speed \in LayoutSpeeds }
LayoutSphereModifiers ==
    { m \in SphereModifiers : m.radius = 2 /\ m.dimension = "Surface" /\ m.speed \in LayoutSpeeds }
LayoutCubeModifiers ==
    { m \in CubeModifiers : m.extents = <<2, 2, 2>> /\ m.dimension = "Volume" /\ m.speed \in LayoutSpeeds }

(***************************************************************************)
(* Execution of the code emitted by PositionCubeModifier (the template of  *)
(* modifiers.rs:306-341) for one spawned particle.  rand() returns k / RandDen *)
(* for k in 0 .. RandDen - 1.  Every vector of the run is stored in units  *)
(* of 1 / PosScale, extents in units of 1 / (2 * RandDen).                 *)
(***************************************************************************)
PosScale == 4 * RandDen * RandDen
RandValues == 0 .. (RandDen - 1)

\* var s = rand_positive_int(6u);
FaceIndices == 0 .. 5

\* var si = vec3<u32>(s, s + 1u, s + 2u) % 3u;
CubeSi(face) == <<face % 3, (face + 1) % 3, (face + 2) % 3>>

\* Mutation: the sign changes one face late.
CubeLockedAxisSignLate(face) == IF face > 3 THEN 1 ELSE -1

\* if (s > 2u) { locked_axis_sign = 1.; } else { locked_axis_sign = -1.; }
CubeLockedAxisSign(face) == IF face > 2 THEN 1 ELSE -1

\* let extents = E;   or   var extents = (rand3() - vec3<f32>(0.5, 0.5, 0.5)) * E;
CubeExtents(m, r3) ==
    IF m.dimension = "Surface"
      THEN [j \in 1 .. 3 |-> 2 * RandDen * m.extents[j]]
      ELSE [j \in 1 .. 3 |-> (2 * r3[j] - RandDen) * m.extents[j]]

\* locked_axis_sign * .5 * extents[ si[0] ]
LockedCoordinate(sign, ext) == sign * RandDen * ext

\* (rand() - .5) * extents[ si[k] ]
FreeCoordinate(r, ext) == (2 * r - RandDen) * ext

\* The statements of the speed code, for speeds that are Value::Single.
CubeVelocity(speed, sign, axes, pos, rot) ==
    CASE speed.kind = "Normal" ->
           QuatMulVec3(rot, [j \in 1 .. 3 |->
               IF j = axes[1] + 1 THEN sign * speed.v[1].v[1] * PosScale ELSE 0])
      [] speed.kind = "Radial" ->
           [j \in 1 .. 3 |-> pos[j] * speed.v[1].v[1]]
      [] speed.kind = "Local" ->
           QuatMulVec3(rot, [j \in 1 .. 3 |-> speed.v[j].v[1] * PosScale])
      [] speed.kind = "World" ->
           [j \in 1 .. 3 |-> speed.v[j].v[1] * PosScale]

NoShader ==
    [pc |-> "idle", dimension |-> "Surface", modifier_extents |-> <<0, 0, 0>>, c |-> <<0, 0, 0>>,
     rot |-> QuatIdentity, speed |-> Radial(Single(0)), extents |-> <<0, 0, 0>>,
     s |-> 0, si |-> <<0, 0, 0>>, locked_axis_sign |-> 0]
NoParticle == [pos |-> <<0, 0, 0>>, vel |-> <<0, 0, 0>>]
NoWrites == [j \in 0 .. 2 |-> 0]

\* let c, let rot, extents, s, si, locked_axis_sign
CubeSpawnBegin(r3, face) ==
    /\ sh.pc = "idle"
    /\ last_applied.position_code # None
    /\ last_applied.position_code[1][1] = "Cube"
    /\ LET m == last_applied.position_code[1][2]
       IN  sh' = [pc |-> "lock", dimension |-> m.dimension, modifier_extents |-> m.extents,
                  c |-> m.center, rot |-> m.rotation, speed |-> m.speed,
                  extents |-> CubeExtents(m, r3),
                  s |-> face, si |-> CubeSi(face),
                  locked_axis_sign |-> CubeLockedAxisSign(face)]
    /\ ret' = NoParticle
    /\ pos_writes' = NoWrites
    /\ UNCHANGED <<ffvars, layoutvars>>

\* ret.pos[ si[0] ] = locked_axis_sign * .5 * extents[ si[0] ];
CubeSpawnLock ==
    /\ sh.pc = "lock"
    /\ LET a == sh.si[1]
       IN  /\ ret' = [ret EXCEPT !.pos[a + 1] =
                         LockedCoordinate(sh.locked_axis_sign, sh.extents[a + 1])]
           /\ pos_writes' = [pos_writes EXCEPT ![a] = @ + 1]
    /\ sh' = [sh EXCEPT !.pc = "free1"]
    /\ UNCHANGED <<ffvars, layoutvars>>

\* ret.pos[ si[1] ] = (rand() - .5) * extents[ si[1] ];
CubeSpawnFree1(r) ==
    /\ sh.pc = "free1"
    /\ LET a == sh.si[2]
       IN  /\ ret' = [ret EXCEPT !.pos[a + 1] = FreeCoordinate(r, sh.extents[a + 1])]
           /\ pos_writes' = [pos_writes EXCEPT ![a] = @ + 1]
    /\ sh' = [sh EXCEPT !.pc = "free2"]
    /\ UNCHANGED <<ffvars, layoutvars>>

\* ret.pos[ si[2] ] = (rand() - .5) * extents[ si[2] ];
CubeSpawnFree2(r) ==
    /\ sh.pc = "free2"
    /\ LET a == sh.si[3]
       IN  /\ ret' = [ret EXCEPT !.pos[a + 1] = FreeCoordinate(r, sh.extents[a + 1])]
           /\ pos_writes' = [pos_writes EXCEPT ![a] = @ + 1]
    /\ sh' = [sh EXCEPT !.pc = "rotate"]
    /\ UNCHANGED <<ffvars, layoutvars>>

\* ret.pos = rotate_point(ret.pos, rot);
CubeSpawnRotate ==
    /\ sh.pc = "rotate"
    /\ ret' = [ret EXCEPT !.pos = QuatMulVec3(sh.rot, ret.pos)]
    /\ sh' = [sh EXCEPT !.pc = "speed"]
    /\ UNCHANGED pos_writes
    /\ UNCHANGED <<ffvars, layoutvars>>

\* the speed code
CubeSpawnSpeed ==
    /\ sh.pc = "speed"
    /\ ret' = [ret EXCEPT !.vel =
                  CubeVelocity(sh.speed, sh.locked_axis_sign, sh.si, ret.pos, sh.rot)]
    /\ sh' = [sh EXCEPT !.pc = "world"]
    /\ UNCHANGED pos_writes
    /\ UNCHANGED <<ffvars, layoutvars>>

\* ret.pos = ret.pos + c;
CubeSpawnWorld ==
    /\ sh.pc = "world"
    /\ ret' = [ret EXCEPT !.pos = [j \in 1 .. 3 |-> ret.pos[j] + sh.c[j] * PosScale]]
    /\ sh' = [sh EXCEPT !.pc = "done"]
    /\ UNCHANGED pos_writes
    /\ UNCHANGED <<ffvars, layoutvars>>

\* The cube modifiers whose code is executed: speeds are Value::Single.
ShaderSpeeds == { Normal(Single(5)), Radial(Single(5)) }
ShaderCubeModifiers ==
    { m \in CubeModifiers : m.extents = <<4, 6, 8>> /\ m.speed \in ShaderSpeeds }

NoReplaceArg == [point_attractor |-> DefaultForceFieldParam, index |-> 0]

InitFF ==
    /\ pc = "idle"
    /\ sources = <<>>
    /\ iter_i = 0
    /\ new_force_field = DefaultForceField
    /\ force_field = DefaultForceField
    /\ panic_msg = ""
    /\ n_replace = 0
    /\ replace_arg = NoReplaceArg
    /\ init_layout = InitLayoutDefault
    /\ update_layout = UpdateLayoutDefault
    /\ render_layout = RenderLayoutDefault
    /\ last_applied = NothingApplied
    /\ shape_code = NoShapeCode
    /\ sh = NoShader
    /\ ret = NoParticle
    /\ pos_writes = NoWrites

NextFF ==
    \/ \E src \in SourceSeqs : NewCall(src)
    \/ NewIterate
    \/ NewReturn
    \/ \E p \in ReplaceParams, index \in ReplaceIndices : AddOrReplace(p, index)
    \/ ForceFieldModifierApply

vars == <<ffvars, layoutvars, shvars>>

SpecFF == InitFF /\ [][NextFF]_vars

\* One effect's layouts, written by modifiers applied in any order; the
\* force-field modifier is an instance new has returned.
InitLayouts ==
    /\ pc = "live"
    /\ sources = LayoutSources
    /\ iter_i = Len(LayoutSources)
    /\ new_force_field = ReturnedInstance(LayoutSources)
    /\ force_field = ReturnedInstance(LayoutSources)
    /\ panic_msg = ""
    /\ n_replace = 0
    /\ replace_arg = NoReplaceArg
    /\ init_layout = InitLayoutDefault
    /\ update_layout = UpdateLayoutDefault
    /\ render_layout = RenderLayoutDefault
    /\ last_applied = NothingApplied
    /\ shape_code = NoShapeCode
    /\ sh = NoShader
    /\ ret = NoParticle
    /\ pos_writes = NoWrites

NextLayouts ==
    \/ \E m \in LayoutCircleModifiers : PositionCircleModifierApply(m)
    \/ \E m \in LayoutSphereModifiers : PositionSphereModifierApply(m)
    \/ \E m \in LayoutCubeModifiers : PositionCubeModifierApply(m)
    \/ \E m \in TextureModifiers : ParticleTextureModifierApply(m)
    \/ \E m \in ColorModifiers : ColorOverLifetimeModifierApply(m)
    \/ \E m \in SizeModifiers : SizeOverLifetimeModifierApply(m)
    \/ \E m \in AccelModifiers : AccelModifierApply(m)
    \/ ForceFieldModifierApply
    \/ AddOrReplace(AttractorC, 0)

SpecLayouts == InitLayouts /\ [][NextLayouts]_vars

\* Code generation of the position modifiers, over all their configurations.
NextShapes ==
    \/ \E m \in CircleModifiers : PositionCircleModifierApply(m)
    \/ \E m \in SphereModifiers : PositionSphereModifierApply(m)
    \/ \E m \in CubeModifiers : PositionCubeModifierApply(m)

SpecShapes == InitLayouts /\ [][NextShapes]_vars

\* A cube modifier is applied and the code it emitted spawns one particle.
NextCube ==
    \/ \E m \in ShaderCubeModifiers : sh.pc = "idle" /\ PositionCubeModifierApply(m)
    \/ \E r3 \in RandValues \X RandValues \X RandValues, face \in FaceIndices :
          CubeSpawnBegin(r3, face)
    \/ CubeSpawnLock
    \/ \E r \in RandValues : CubeSpawnFree1(r)
    \/ \E r \in RandValues : CubeSpawnFree2(r)
    \/ CubeSpawnRotate
    \/ CubeSpawnSpeed
    \/ CubeSpawnWorld

SpecCube == InitLayouts /\ [][NextCube]_vars

(***************************************************************************)
(* Properties of the force-field modifier (checked under SpecFF)           *)
(***************************************************************************)
InNew == n_replace = 0

\* C1: new called with n <= FFNUM sources does not panic, and the instance it
\* returns holds the i-th source in slot i for every i < n, zero-mass sources
\* included, and the default ForceFieldParam (mass 0) in slots n .. FFNUM-1.
C1_NewFillsSlotsInSourceOrder ==
    (InNew /\ Len(sources) <= FFNUM) =>
        /\ pc # "panicked"
        /\ pc = "live" =>
             \A j \in Slots :
                 IF j < Len(sources)
                   THEN force_field[j] = sources[j + 1]
                   ELSE /\ force_field[j] = DefaultForceFieldParam
                        /\ force_field[j].mass = 0

\* new returned from FFNUM sources, one of them zero-mass, all slots filled.
C1_Witness ==
    /\ pc = "live" /\ InNew
    /\ Len(sources) = FFNUM
    /\ sources[2].mass = 0
    /\ force_field[1] = sources[2]
    /\ force_field[1] # DefaultForceFieldParam
    /\ force_field[FFNUM - 1] = sources[FFNUM]
    /\ force_field[FFNUM - 1].mass # 0

\* C2: a call of new given more than FFNUM sources never returns an instance:
\* it is either still in its loop or has panicked.
C2_TooManySourcesNeverReturns ==
    Len(sources) > FFNUM => (pc \in {"new", "panicked"} /\ InNew)

\* new was given more than FFNUM sources and has panicked.
C2_Witness ==
    Len(sources) > FFNUM /\ pc = "panicked" /\ InNew /\ panic_msg # ""

\* C3: add_or_replace(p, index) with index < FFNUM sets slot index to p and
\* leaves every other slot as it was before the call.
C3_AddOrReplaceChangesOnlyItsSlot ==
    [][(n_replace' = n_replace + 1 /\ replace_arg'.index < FFNUM) =>
          /\ pc' = "live"
          /\ \A j \in Slots :
                force_field'[j] = IF j = replace_arg'.index
                                    THEN replace_arg'.point_attractor
                                    ELSE force_field[j]]_vars

\* add_or_replace has replaced the last slot of an instance built from sources.
C3_Witness ==
    /\ pc = "live" /\ n_replace > 0
    /\ replace_arg.index = FFNUM - 1
    /\ force_field[FFNUM - 1] = AttractorC
    /\ force_field[0] = AttractorA

\* C5: apply copies the array by value: the layout's force_field is the
\* instance's array as it was when apply last ran, whatever add_or_replace did
\* to the instance since, and apply leaves the instance unchanged.
C5_ApplyCopiesByValue ==
    [][/\ last_applied'.force_field # None =>
            update_layout'.force_field = last_applied'.force_field[1]
       /\ force_field' # force_field => update_layout' = update_layout
       /\ update_layout' # update_layout =>
            /\ force_field' = force_field
            /\ update_layout'.force_field = force_field]_vars

\* apply ran, then add_or_replace changed the instance: the layout kept the copy.
C5_Witness ==
    /\ last_applied.force_field # None
    /\ n_replace > 0
    /\ force_field # update_layout.force_field
    /\ update_layout.force_field # DefaultForceField

\* C10: in new's loop every slot access has i < FFNUM: a call with too many
\* sources is ended by the explicit capacity check, never by the array's
\* bounds check.
C10_CapacityCheckPrecedesEveryWrite ==
    (pc = "panicked" /\ InNew) => (panic_msg = PanicTooMany /\ iter_i = FFNUM)

(***************************************************************************)
(* Properties of the layouts (checked under SpecLayouts)                   *)
(***************************************************************************)
\* The text a position modifier emits.
EmittedPositionCode(shape, m) ==
    CASE shape = "Circle" -> CirclePositionCode(m)
      [] shape = "Sphere" -> SpherePositionCode(m)
      [] shape = "Cube" -> CubePositionCode(m)

\* C4: every layout field holds exactly what the last applied modifier that
\* targets it wrote (the whole emitted text for position_code, nothing kept
\* of an earlier one), and its initial value when no such modifier was
\* applied; so modifiers of other fields, applied before or after, do not
\* affect it.
C4_LastWriteWinsPerField ==
    /\ init_layout.position_code =
         IF last_applied.position_code = None THEN InitLayoutDefault.position_code
         ELSE EmittedPositionCode(last_applied.position_code[1][1],
                                  last_applied.position_code[1][2])
    /\ update_layout.accel =
         IF last_applied.accel = None THEN UpdateLayoutDefault.accel
         ELSE last_applied.accel[1].accel
    /\ update_layout.force_field =
         IF last_applied.force_field = None THEN UpdateLayoutDefault.force_field
         ELSE last_applied.force_field[1]
    /\ render_layout.particle_texture =
         IF last_applied.particle_texture = None THEN RenderLayoutDefault.particle_texture
         ELSE Some(last_applied.particle_texture[1].texture)
    /\ render_layout.lifetime_color_gradient =
         IF last_applied.lifetime_color_gradient = None
           THEN RenderLayoutDefault.lifetime_color_gradient
         ELSE Some(last_applied.lifetime_color_gradient[1].gradient)
    /\ render_layout.size_color_gradient =
         IF last_applied.size_color_gradient = None
           THEN RenderLayoutDefault.size_color_gradient
         ELSE Some(last_applied.size_color_gradient[1].gradient)

\* Modifiers of three fields were applied, the force field after the
\* instance was changed, and the other three fields are still initial.
C4_Witness ==
    /\ last_applied.position_code # None
    /\ last_applied.position_code[1][1] = "Cube"
    /\ update_layout.accel = <<3, 0, 0>>
    /\ last_applied.force_field # None
    /\ update_layout.force_field[0] = AttractorC
    /\ render_layout = RenderLayoutDefault

(***************************************************************************)
(* Properties of the emitted code (checked under SpecShapes)               *)
(***************************************************************************)
AppliedShape == last_applied.position_code[1][1]
AppliedModifier == last_applied.position_code[1][2]

\* The same modifier with Normal(s) and Radial(s) exchanged.
WithOtherSpeedKind(m) ==
    [m EXCEPT !.speed.kind = IF @ = "Normal" THEN "Radial" ELSE "Normal"]

SpeedCodeOf(shape, m) ==
    CASE shape = "Circle" -> CircleSpeedCode(m)
      [] shape = "Sphere" -> SphereSpeedCode(m)
      [] shape = "Cube" -> CubeSpeedCode(m)

\* C6: the velocity code a Circle or a Sphere modifier emits for Normal(s) is
\* the one it emits for Radial(s), all other fields equal; the velocity code
\* a Cube modifier emits for Normal(s) differs from the one for Radial(s).
C6_NormalVersusRadial ==
    (last_applied.position_code # None /\ AppliedModifier.speed.kind \in {"Normal", "Radial"}) =>
        LET other == SpeedCodeOf(AppliedShape, WithOtherSpeedKind(AppliedModifier))
        IN  IF AppliedShape = "Cube"
              THEN shape_code.speed_code # other
              ELSE shape_code.speed_code = other

\* A sphere modifier with Normal speed drawn from a range was applied.
C6_Witness ==
    /\ last_applied.position_code # None
    /\ AppliedShape = "Sphere"
    /\ AppliedModifier.speed = Normal(Uniform(1, 3))
    /\ shape_code.speed_code =
         <<"ret.vel = dir * (", "(", "rand()", " * (", "3", " - ", "1", ") + ", "1", ")", ");">>

\* Number of random-sampling calls in a piece of emitted code.
RandCallCount(code) == Cardinality({ k \in DOMAIN code : code[k] \in RandCalls })

\* C7: with Surface, Circle and Sphere emit `let r = <radius>;`, with no
\* random-sampling call; with Volume, the radius / extents statement of
\* Circle, Sphere and Cube holds exactly one random-sampling call, inside
\* sqrt(...) for Circle and inside pow(..., 1./3.) for Sphere.
C7_RadiusStatementByDimension ==
    last_applied.position_code # None =>
        LET code == shape_code.radius_code
            m == AppliedModifier
        IN  /\ (m.dimension = "Surface" /\ AppliedShape \in {"Circle", "Sphere"}) =>
                  /\ code = <<"let r = ", ToString(m.radius), ";">>
                  /\ RandCallCount(code) = 0
            /\ m.dimension = "Volume" =>
                  /\ RandCallCount(code) = 1
                  /\ AppliedShape = "Circle" =>
                       /\ <<code[1], code[2], code[3]>> = <<"let r = sqrt(", "rand()", ") * ">>
                       /\ code[4] = ToString(m.radius)
                  /\ AppliedShape = "Sphere" =>
                       /\ <<code[1], code[2], code[3]>> = <<"var r = pow(", "rand()", ", 1./3.) * ">>
                       /\ code[4] = ToString(m.radius)

\* A sphere modifier of radius 7 sampling its volume was applied.
C7_Witness ==
    /\ last_applied.position_code # None
    /\ AppliedShape = "Sphere"
    /\ AppliedModifier.dimension = "Volume"
    /\ AppliedModifier.radius = 7
    /\ RandCallCount(shape_code.radius_code) = 1

(***************************************************************************)
(* Properties of the cube sampling code (checked under SpecCube)           *)
(***************************************************************************)
\* C8: the face index s in 0 .. 5 determines the pair (locked axis s % 3,
\* sign +1 if s > 2 else -1); every pair of an axis in {0, 1, 2} and a sign
\* in {-1, +1} comes from exactly one s; si is a permutation of {0, 1, 2};
\* and when the rotation is reached every coordinate of ret.pos has been
\* assigned exactly once.
C8_FacesAndPermutation ==
    sh.pc # "idle" =>
        /\ sh.si[1] = sh.s % 3
        /\ sh.locked_axis_sign = (IF sh.s > 2 THEN 1 ELSE -1)
        /\ { sh.si[1], sh.si[2], sh.si[3] } = {0, 1, 2}
        /\ \A axis \in 0 .. 2, sign \in {-1, 1} :
              Cardinality({ face \in FaceIndices :
                  CubeSi(face)[1] = axis /\ CubeLockedAxisSign(face) = sign }) = 1
        /\ { face \in FaceIndices :
               CubeSi(face)[1] = sh.si[1] /\ CubeLockedAxisSign(face) = sh.locked_axis_sign }
             = { sh.s }
        /\ sh.pc \in {"rotate", "speed", "world", "done"} =>
              \A j \in 0 .. 2 : pos_writes[j] = 1

\* Face 5 (axis 2, sign +1) was drawn and the run reached the rotation.
C8_Witness ==
    /\ sh.pc = "rotate"
    /\ sh.s = 5
    /\ sh.si = <<2, 0, 1>>
    /\ sh.locked_axis_sign = 1
    /\ pos_writes = [j \in 0 .. 2 |-> 1]

\* C9: with Surface and half-extents e, before rotation and translation the
\* locked coordinate of ret.pos is exactly +e[axis] or -e[axis], by the
\* face sign, and each free coordinate k lies within [-e[k], +e[k]].
C9_LockedCoordinateAtHalfExtent ==
    (sh.pc = "rotate" /\ sh.dimension = "Surface") =>
        /\ ret.pos[sh.si[1] + 1] = sh.locked_axis_sign * sh.modifier_extents[sh.si[1] + 1] * PosScale
        /\ \A k \in {sh.si[2], sh.si[3]} :
              /\ ret.pos[k + 1] >= -(sh.modifier_extents[k + 1] * PosScale)
              /\ ret.pos[k + 1] <= sh.modifier_extents[k + 1] * PosScale
====
